---------------------------- MODULE Spec2Model ----------------------------
(***************************************************************************)
(* Readout-timing derivation of convert_source: calc_read_time             *)
(* (convert_source/cs_utils/utils.py), the JSON sidecar readers            *)
(* get_recon_mat / get_pix_band, and the PAR header readers of             *)
(* convert_source_par.py (get_etl, get_wfs, get_red_fact, get_mb,          *)
(* get_scan_time).                                                         *)
(*                                                                         *)
(* Python values are records [t, n, d]: t = "num" is the number n/d (a     *)
(* float or an int, kept as an exact fraction in lowest terms), "empty"    *)
(* is the empty string '', "unknown" is the string 'unknown', "unbound"    *)
(* is a local variable that was never assigned.  Floating point rounding   *)
(* is not modelled: 434.215 is 86843/200 and 1.3 is 13/10.                 *)
(*                                                                         *)
(* Text is a tuple of one-character strings.                               *)
(***************************************************************************)
EXTENDS Integers, Sequences, FiniteSets, TLC

VARIABLES
    cwd,          \* the process's working directory (os.path.abspath reads it)
    file,         \* calc_read_time's argument file
    json_file,    \* calc_read_time's argument json_file ('' when not given)
    par,          \* the PAR header text of the raw file: a sequence of lines
    bwp,          \* the BandwidthPerPixelPhaseEncode tag of the raw DICOM file
    json,         \* the JSON sidecar's content
    pc,           \* position of the running call
    calc_method,  \* local of calc_read_time
    bwpppe, recon_mat, pix_band, wfs, etl, red_fact,   \* locals of calc_read_time
    rule,         \* the branch of the if/elif chain of lines 1083-1099 taken
    calls,        \* the steps and extractor invocations of the call, in order
    ret,          \* what calc_read_time returned or raised
    xfn, xret,    \* a function called on its own, and what it returned
    sel_in,       \* the six locals as the formula selection found them
    ncalls,       \* the calls of calc_read_time begun so far
    jfile,        \* the JSON file update_json is called on
    jarg,         \* update_json's argument dictionary
    in_list,      \* list_in_substr's list of words
    in_str,       \* list_in_substr's string
    bids,         \* the four lists of a BIDSimg object
    disk          \* the files that exist, for BIDSimg

vars == <<cwd, file, json_file, par, bwp, json, pc, calc_method,
          bwpppe, recon_mat, pix_band, wfs, etl, red_fact,
          rule, calls, ret, xfn, xret, sel_in, ncalls, jfile, jarg,
          in_list, in_str, bids, disk>>

(***************************************************************************)
(* Bounds of the model.                                                    *)
(***************************************************************************)
MaxVal == 2
MaxLines == 2
MaxCalls == 2
MaxWords == 2

(***************************************************************************)
(* Python values.                                                          *)
(***************************************************************************)
Num(n, d) == [t |-> "num", n |-> n, d |-> d]
IntVal(n) == Num(n, 1)
Empty == [t |-> "empty", n |-> 0, d |-> 1]
Unknown == [t |-> "unknown", n |-> 0, d |-> 1]
Unbound == [t |-> "unbound", n |-> 0, d |-> 1]

\* Python's truth value of v: '' and 0 are false, every other value is true.
Truthy(v) == IF v.t = "num" THEN v.n # 0 ELSE v.t # "empty"

Abs(x) == IF x < 0 THEN -x ELSE x

RECURSIVE GCD(_, _)
GCD(a, b) == IF b = 0 THEN a ELSE GCD(b, a % b)

\* The fraction n/d (d # 0) in lowest terms with a positive denominator.
Frac(n, d) ==
    LET g == GCD(Abs(n), Abs(d))
        s == IF d < 0 THEN -1 ELSE 1
    IN  Num((s * n) \div g, (s * d) \div g)

RMul(a, b) ==
    LET g1 == GCD(Abs(a.n), b.d)
        g2 == GCD(Abs(b.n), a.d)
    IN  Frac((a.n \div g1) * (b.n \div g2), (a.d \div g2) * (b.d \div g1))
RAdd(a, b) == Frac(a.n * b.d + b.n * a.d, a.d * b.d)
RSub(a, b) == RAdd(a, Num(-b.n, b.d))
\* a / b for b # 0.
RDiv(a, b) == RMul(a, Frac(b.d, b.n))

(***************************************************************************)
(* Results of a call: a returned value or a raised exception.              *)
(***************************************************************************)
Return(v) == [kind |-> "return", exc |-> "", val |-> v]
Raise(e) == [kind |-> "raise", exc |-> e, val |-> Empty]
NoResult == [kind |-> "none", exc |-> "", val |-> Empty]

(***************************************************************************)
(* Text: substring test and os.path.abspath.                               *)
(***************************************************************************)
Contains(sub, s) ==
    \E i \in 1..(Len(s) - Len(sub) + 1) : SubSeq(s, i, i + Len(sub) - 1) = sub

\* os.path.abspath(p): an absolute path is kept, a relative one is joined to
\* the working directory (no path of the model holds ".", ".." or "//").
abspath(p) ==
    IF Len(p) > 0 /\ p[1] = "/" THEN p
    ELSE IF Len(p) = 0 THEN cwd
    ELSE cwd \o <<"/">> \o p

(***************************************************************************)
(* Python's int() and float() on a token of the characters [0-9.-].        *)
(***************************************************************************)
Digits == {"0", "1", "2", "3", "4", "5", "6", "7", "8", "9"}
DigitVal(c) ==
    CASE c = "0" -> 0 [] c = "1" -> 1 [] c = "2" -> 2 [] c = "3" -> 3
      [] c = "4" -> 4 [] c = "5" -> 5 [] c = "6" -> 6 [] c = "7" -> 7
      [] c = "8" -> 8 [] c = "9" -> 9

AllDigits(s) == \A i \in 1..Len(s) : s[i] \in Digits

RECURSIVE DigitsVal(_)
DigitsVal(s) ==
    IF Len(s) = 0 THEN 0
    ELSE 10 * DigitsVal(SubSeq(s, 1, Len(s) - 1)) + DigitVal(s[Len(s)])

RECURSIVE Pow10(_)
Pow10(k) == IF k = 0 THEN 1 ELSE 10 * Pow10(k - 1)

Unsigned(tok) == IF Len(tok) > 0 /\ tok[1] = "-" THEN Tail(tok) ELSE tok
Sign(tok) == IF Len(tok) > 0 /\ tok[1] = "-" THEN -1 ELSE 1

\* int(tok): an optional sign and at least one digit, nothing else.
IsIntLiteral(tok) == Len(Unsigned(tok)) > 0 /\ AllDigits(Unsigned(tok))
\* int() that would answer 0 for a token it cannot read.
ParseInt_default(tok) ==
    IF IsIntLiteral(tok) THEN Return(IntVal(Sign(tok) * DigitsVal(Unsigned(tok))))
    ELSE Return(IntVal(0))

ParseInt(tok) ==
    IF IsIntLiteral(tok) THEN Return(IntVal(Sign(tok) * DigitsVal(Unsigned(tok))))
    ELSE Raise("ValueError")

\* float(tok): an optional sign, digits with at most one point, one digit at least.
DotAt(u) == IF \E i \in 1..Len(u) : u[i] = "."
            THEN CHOOSE i \in 1..Len(u) : u[i] = "." /\ \A j \in 1..(i - 1) : u[j] # "."
            ELSE 0
IntPart(u) == IF DotAt(u) = 0 THEN u ELSE SubSeq(u, 1, DotAt(u) - 1)
FracPart(u) == IF DotAt(u) = 0 THEN <<>> ELSE SubSeq(u, DotAt(u) + 1, Len(u))
IsFloatLiteral(tok) ==
    LET u == Unsigned(tok)
    IN  /\ AllDigits(IntPart(u))
        /\ AllDigits(FracPart(u))
        /\ Len(IntPart(u)) + Len(FracPart(u)) > 0
ParseFloat(tok) ==
    LET u == Unsigned(tok)
    IN  IF IsFloatLiteral(tok)
        THEN Return(Frac(Sign(tok) * (DigitsVal(IntPart(u)) * Pow10(Len(FracPart(u)))
                                      + DigitsVal(FracPart(u))),
                         Pow10(Len(FracPart(u)))))
        ELSE Raise("ValueError")

(***************************************************************************)
(* The PAR header: a sequence of lines.  A line is the label it carries    *)
(* and the first run of the characters [0-9.-] after it (<<>> when there   *)
(* is none, in which case none of the regular expressions matches it).     *)
(***************************************************************************)
RunLabels == {"EPI", "WFS", "SENSE"}
AllLabels == RunLabels \cup {"MB", "SCAN"}
Tokens == {<<"2">>, <<"0">>, <<"-", "1">>, <<"1", ".", "5">>, <<"-">>}
OtherLine == [label |-> "OTHER", tok |-> <<>>]
LinesOver(labels) == [label : labels, tok : Tokens] \cup {OtherLine}
HeadersOver(labels) ==
    UNION {[1..k -> LinesOver(labels)] : k \in 0..MaxLines}

\* regexp.match(line) / regexp.search(line) of the extractor of label l.
Matches(line, l) == line.label = l /\ Len(line.tok) > 0

RECURSIVE get_etl_loop(_, _, _)
get_etl_loop(lines, i, cur) ==
    IF i > Len(lines)
    THEN IF cur = Unbound THEN Raise("UnboundLocalError") ELSE Return(cur)
    ELSE IF Matches(lines[i], "EPI")
         THEN LET p == ParseInt(lines[i].tok)
              IN  IF p.kind = "raise" THEN p ELSE get_etl_loop(lines, i + 1, p.val)
         ELSE get_etl_loop(lines, i + 1, cur)
get_etl(lines) == get_etl_loop(lines, 1, Unbound)

RECURSIVE get_wfs_loop(_, _, _)
get_wfs_loop(lines, i, cur) ==
    IF i > Len(lines)
    THEN IF cur = Unbound THEN Raise("UnboundLocalError") ELSE Return(cur)
    ELSE IF Matches(lines[i], "WFS")
         THEN LET p == ParseFloat(lines[i].tok)
              IN  IF p.kind = "raise" THEN p ELSE get_wfs_loop(lines, i + 1, p.val)
         ELSE get_wfs_loop(lines, i + 1, cur)
get_wfs(lines) == get_wfs_loop(lines, 1, Unbound)

\* red_fact starts as '' and every line assigns it: the parsed value when
\* the line matches, float(1) when it does not.
RECURSIVE get_red_fact_loop(_, _, _)
get_red_fact_loop(lines, i, cur) ==
    IF i > Len(lines) THEN Return(cur)
    ELSE IF Matches(lines[i], "SENSE")
         THEN LET p == ParseFloat(lines[i].tok)
              IN  IF p.kind = "raise" THEN p
                  ELSE get_red_fact_loop(lines, i + 1, p.val)
         ELSE get_red_fact_loop(lines, i + 1, IntVal(1))
get_red_fact(lines) == get_red_fact_loop(lines, 1, Empty)

RECURSIVE get_mb_loop(_, _, _)
get_mb_loop(lines, i, cur) ==
    IF i > Len(lines) THEN Return(cur)
    ELSE IF Matches(lines[i], "MB")
         THEN LET p == ParseInt(lines[i].tok)
              IN  IF p.kind = "raise" THEN p ELSE get_mb_loop(lines, i + 1, p.val)
         ELSE get_mb_loop(lines, i + 1, cur)
get_mb(lines) == get_mb_loop(lines, 1, IntVal(1))

RECURSIVE get_scan_time_loop(_, _, _)
get_scan_time_loop(lines, i, cur) ==
    IF i > Len(lines) THEN Return(cur)
    ELSE IF Matches(lines[i], "SCAN")
         THEN LET p == ParseFloat(lines[i].tok)
              IN  IF p.kind = "raise" THEN p
                  ELSE get_scan_time_loop(lines, i + 1, p.val)
         ELSE get_scan_time_loop(lines, i + 1, cur)
\* get_scan_time that would start from 0 instead of 'unknown'.
get_scan_time_zero_default(lines) == get_scan_time_loop(lines, 1, IntVal(0))

get_scan_time(lines) == get_scan_time_loop(lines, 1, Unknown)

(***************************************************************************)
(* The JSON sidecar: structurally valid or not (ok), and for a valid one   *)
(* the value under each key the readers look up (Missing: no such key).    *)
(* A sidecar path that is given names an existing file.                    *)
(***************************************************************************)
Missing == [t |-> "missing", n |-> 0, d |-> 1]
JsonVals == {Missing} \cup {IntVal(n) : n \in 0..MaxVal}
Malformed == [ok |-> FALSE, ReconMatrixPE |-> Missing, PixelBandwidth |-> Missing]
Sidecars ==
    {Malformed} \cup [ok : {TRUE}, ReconMatrixPE : JsonVals, PixelBandwidth : JsonVals]

\* get_recon_mat without the except clause.
get_recon_mat_no_except(j) ==
    IF ~j.ok THEN Raise("JSONDecodeError")
    ELSE IF j.ReconMatrixPE = Missing THEN Raise("KeyError")
    ELSE Return(j.ReconMatrixPE)

\* json.load raises JSONDecodeError on a malformed file, which the reader
\* catches; data[key] raises KeyError on a missing key, which it does not.
get_recon_mat(j) ==
    IF ~j.ok THEN Return(Empty)
    ELSE IF j.ReconMatrixPE = Missing THEN Raise("KeyError")
    ELSE Return(j.ReconMatrixPE)

get_pix_band(j) ==
    IF ~j.ok THEN Return(Empty)
    ELSE IF j.PixelBandwidth = Missing THEN Raise("KeyError")
    ELSE Return(j.PixelBandwidth)

\* The DICOM private-tag reader: the tag's value, or '' when the header
\* does not carry it.
BwpVals == {Empty} \cup {IntVal(n) : n \in 1..MaxVal}
get_bwpppe(tag) == Return(tag)

(***************************************************************************)
(* calc_read_time: the formula selection of lines 1082-1101 over the six   *)
(* locals f = [bwpppe, recon_mat, pix_band, wfs, etl, red_fact].           *)
(***************************************************************************)
Return2(e, t) == [kind |-> "return", exc |-> "", eff |-> e, tot |-> t]
Raise2(x) == [kind |-> "raise", exc |-> x, eff |-> Empty, tot |-> Empty]
NoResult2 == [kind |-> "none", exc |-> "", eff |-> Empty, tot |-> Empty]

\* eff_echo_sp = 1/(bwpppe * recon_mat); tot_read_time = eff_echo_sp * (recon_mat - 1)
approach1(f) ==
    LET den == RMul(f.bwpppe, f.recon_mat)
        eff == RDiv(IntVal(1), den)
    IN  IF den.n = 0 THEN Raise2("ZeroDivisionError")
        ELSE Return2(eff, RMul(eff, RSub(f.recon_mat, IntVal(1))))

\* approach2 without the default of red_fact.
approach2_no_default(f) ==
    LET rf == f.red_fact
        den == RMul(Frac(434215, 1000), RAdd(f.etl, IntVal(1)))
        eff == RDiv(RDiv(RMul(IntVal(1000), f.wfs), den), rf)
    IN  IF den.n = 0 THEN Raise2("ZeroDivisionError")
        ELSE IF rf.t # "num" THEN Raise2("TypeError")
        ELSE IF rf.n = 0 THEN Raise2("ZeroDivisionError")
        ELSE Return2(eff, RMul(RMul(Frac(1, 1000), eff), f.etl))

\* if not red_fact: red_fact = 1
\* eff_echo_sp = (((1000 * wfs)/(434.215 * (etl + 1)))/red_fact)
\* tot_read_time = 0.001 * eff_echo_sp * etl
approach2(f) ==
    LET rf == IF ~Truthy(f.red_fact) THEN IntVal(1) ELSE f.red_fact
        den == RMul(Frac(434215, 1000), RAdd(f.etl, IntVal(1)))
        eff == RDiv(RDiv(RMul(IntVal(1000), f.wfs), den), rf)
    IN  IF den.n = 0 \/ rf.n = 0 THEN Raise2("ZeroDivisionError")
        ELSE Return2(eff, RMul(RMul(Frac(1, 1000), eff), f.etl))

\* eff_echo_sp = ((1/(pix_band * etl)) * (etl - 1)) * 1.3
\* tot_read_time = eff_echo_sp * (etl - 1)
approach3(f) ==
    LET den == RMul(f.pix_band, f.etl)
        eff == RMul(RMul(RDiv(IntVal(1), den), RSub(f.etl, IntVal(1))), Frac(13, 10))
    IN  IF den.n = 0 THEN Raise2("ZeroDivisionError")
        ELSE Return2(eff, RMul(eff, RSub(f.etl, IntVal(1))))

\* approach4 without the factor 1.3.
approach4_no_factor(f) ==
    LET den == RMul(f.pix_band, f.recon_mat)
        eff == RMul(RDiv(IntVal(1), den), RSub(f.recon_mat, IntVal(1)))
    IN  IF den.n = 0 THEN Raise2("ZeroDivisionError")
        ELSE Return2(eff, RMul(eff, RSub(f.recon_mat, IntVal(1))))

\* eff_echo_sp = ((1/(pix_band * recon_mat)) * (recon_mat - 1)) * 1.3
\* tot_read_time = eff_echo_sp * (recon_mat - 1)
approach4(f) ==
    LET den == RMul(f.pix_band, f.recon_mat)
        eff == RMul(RMul(RDiv(IntVal(1), den), RSub(f.recon_mat, IntVal(1))),
                    Frac(13, 10))
    IN  IF den.n = 0 THEN Raise2("ZeroDivisionError")
        ELSE Return2(eff, RMul(eff, RSub(f.recon_mat, IntVal(1))))

\* select_rule with the two PixelBandwidth tests in the other order.
select_rule_recon_first(f) ==
    IF Truthy(f.bwpppe) /\ Truthy(f.recon_mat) THEN 1
    ELSE IF Truthy(f.wfs) /\ Truthy(f.etl) THEN 2
    ELSE IF Truthy(f.pix_band) /\ Truthy(f.recon_mat) THEN 4
    ELSE IF Truthy(f.pix_band) /\ Truthy(f.etl) THEN 3
    ELSE 5

\* select_rule whose third test reads `or` for `and`.
select_rule_or(f) ==
    IF Truthy(f.bwpppe) /\ Truthy(f.recon_mat) THEN 1
    ELSE IF Truthy(f.wfs) /\ Truthy(f.etl) THEN 2
    ELSE IF Truthy(f.pix_band) \/ Truthy(f.etl) THEN 3
    ELSE IF Truthy(f.pix_band) /\ Truthy(f.recon_mat) THEN 4
    ELSE 5

\* select_rule with the first two tests in the other order.
select_rule_wfs_first(f) ==
    IF Truthy(f.wfs) /\ Truthy(f.etl) THEN 2
    ELSE IF Truthy(f.bwpppe) /\ Truthy(f.recon_mat) THEN 1
    ELSE IF Truthy(f.pix_band) /\ Truthy(f.etl) THEN 3
    ELSE IF Truthy(f.pix_band) /\ Truthy(f.recon_mat) THEN 4
    ELSE 5

\* The branch of the if/elif chain taken: 1..4, or 5 for the else branch.
select_rule(f) ==
    IF Truthy(f.bwpppe) /\ Truthy(f.recon_mat) THEN 1
    ELSE IF Truthy(f.wfs) /\ Truthy(f.etl) THEN 2
    ELSE IF Truthy(f.pix_band) /\ Truthy(f.etl) THEN 3
    ELSE IF Truthy(f.pix_band) /\ Truthy(f.recon_mat) THEN 4
    ELSE 5

\* select_formula whose else branch leaves tot_read_time at 0.
select_formula_else_zero(f) ==
    CASE select_rule(f) = 1 -> approach1(f)
      [] select_rule(f) = 2 -> approach2(f)
      [] select_rule(f) = 3 -> approach3(f)
      [] select_rule(f) = 4 -> approach4(f)
      [] OTHER -> Return2(Empty, IntVal(0))

select_formula(f) ==
    CASE select_rule(f) = 1 -> approach1(f)
      [] select_rule(f) = 2 -> approach2(f)
      [] select_rule(f) = 3 -> approach3(f)
      [] select_rule(f) = 4 -> approach4(f)
      [] OTHER -> Return2(Empty, Empty)

Fields == [bwpppe |-> bwpppe, recon_mat |-> recon_mat, pix_band |-> pix_band,
           wfs |-> wfs, etl |-> etl, red_fact |-> red_fact]

(***************************************************************************)
(* calc_read_time, step by step.                                           *)
(***************************************************************************)
\* str.lower() on the letters the paths are written with.
LowerChar(c) ==
    CASE c = "D" -> "d" [] c = "C" -> "c" [] c = "M" -> "m"
      [] c = "P" -> "p" [] c = "A" -> "a" [] c = "R" -> "r"
      [] c = "T" -> "t"
      [] OTHER -> c
Lower(s) == [i \in 1..Len(s) |-> LowerChar(s[i])]

\* A format check that ignores case.
calc_method_of_nocase(path) ==
    IF Contains(<<"d", "c", "m">>, Lower(path)) THEN "dcm"
    ELSE IF Contains(<<"p", "a", "r">>, Lower(path)) THEN "par"
    ELSE "unbound"

\* A format check that looks for 'PAR' first.
calc_method_of_par_first(path) ==
    IF Contains(<<"P", "A", "R">>, path) THEN "par"
    ELSE IF Contains(<<"d", "c", "m">>, path) THEN "dcm"
    ELSE "unbound"

\* Lines 1058-1061: if 'dcm' in file ... elif 'PAR' in file ... (no else).
calc_method_of(path) ==
    IF Contains(<<"d", "c", "m">>, path) THEN "dcm"
    ELSE IF Contains(<<"P", "A", "R">>, path) THEN "par"
    ELSE "unbound"

inputs == <<cwd, file, json_file, par, bwp, json>>
locals == <<bwpppe, recon_mat, pix_band, wfs, etl, red_fact>>
unit == <<xfn, xret>>
json_io == <<jfile, jarg>>
util_io == <<in_list, in_str, bids, disk>>

\* Lines 1052-1069: the format check and the six empty strings.  When
\* neither substring matches no branch assigns calc_method.
DetectFormat ==
    /\ pc = "start"
    /\ calc_method' = IF calc_method_of(abspath(file)) = "unbound"
                      THEN calc_method
                      ELSE calc_method_of(abspath(file))
    /\ bwpppe' = Empty /\ recon_mat' = Empty /\ pix_band' = Empty
    /\ wfs' = Empty /\ etl' = Empty /\ red_fact' = Empty
    /\ calls' = Append(calls, "detect")
    /\ pc' = "dispatch"
    /\ UNCHANGED <<inputs, json_io, util_io, ncalls, sel_in, rule, ret, unit>>

\* dispatch with the two branches exchanged.
dispatch_swapped(method) ==
    CASE method = "dcm" -> "get_wfs"
      [] method = "par" -> "get_bwpppe"
      [] OTHER -> "raise"

\* dispatch that falls through to the PAR branch when no format was detected.
dispatch_default_par(method) ==
    CASE method = "dcm" -> "get_bwpppe"
      [] OTHER -> "get_wfs"

\* The branch the call takes at lines 1071 and 1077; reading calc_method
\* when neither substring matched raises UnboundLocalError.
dispatch(method) ==
    CASE method = "dcm" -> "get_bwpppe"
      [] method = "par" -> "get_wfs"
      [] OTHER -> "raise"

Dispatch ==
    /\ pc = "dispatch"
    /\ IF dispatch(calc_method) = "raise"
       THEN pc' = "done" /\ ret' = Raise2("UnboundLocalError")
       ELSE pc' = dispatch(calc_method) /\ ret' = ret
    /\ UNCHANGED <<inputs, json_io, util_io, ncalls, sel_in,
                   calc_method, locals, rule, calls, unit>>

\* CallGetBwpppe that would read the sidecar whether or not its path is given.
CallGetBwpppe_always_json ==
    /\ pc = "get_bwpppe"
    /\ bwpppe' = get_bwpppe(bwp).val
    /\ calls' = Append(calls, "get_bwpppe")
    /\ pc' = "get_recon_mat"
    /\ UNCHANGED <<inputs, json_io, util_io, ncalls, sel_in,
                   calc_method, recon_mat, pix_band, wfs, etl, red_fact,
                   rule, ret, unit>>

\* Lines 1072-1073.
CallGetBwpppe ==
    /\ pc = "get_bwpppe"
    /\ bwpppe' = get_bwpppe(bwp).val
    /\ calls' = Append(calls, "get_bwpppe")
    /\ pc' = IF Len(json_file) > 0 THEN "get_recon_mat" ELSE "select"
    /\ UNCHANGED <<inputs, json_io, util_io, ncalls, sel_in,
                   calc_method, recon_mat, pix_band, wfs, etl, red_fact,
                   rule, ret, unit>>

\* Line 1074.
CallGetReconMat ==
    /\ pc = "get_recon_mat"
    /\ calls' = Append(calls, "get_recon_mat")
    /\ LET r == get_recon_mat(json)
       IN  IF r.kind = "raise"
           THEN pc' = "done" /\ ret' = Raise2(r.exc) /\ recon_mat' = recon_mat
           ELSE pc' = "get_pix_band" /\ ret' = ret /\ recon_mat' = r.val
    /\ UNCHANGED <<inputs, json_io, util_io, ncalls, sel_in,
                   calc_method, bwpppe, pix_band, wfs, etl, red_fact,
                   rule, unit>>

\* CallGetPixBand without the assignment of line 1076.
CallGetPixBand_no_etl ==
    /\ pc = "get_pix_band"
    /\ calls' = Append(calls, "get_pix_band")
    /\ LET r == get_pix_band(json)
       IN  IF r.kind = "raise"
           THEN pc' = "done" /\ ret' = Raise2(r.exc) /\ pix_band' = pix_band
           ELSE pc' = "select" /\ ret' = ret /\ pix_band' = r.val
    /\ UNCHANGED <<inputs, json_io, util_io, ncalls, sel_in,
                   calc_method, bwpppe, recon_mat, wfs, etl, red_fact,
                   rule, unit>>

\* Lines 1075-1076: pix_band = get_pix_band(json_file); etl = recon_mat.
CallGetPixBand ==
    /\ pc = "get_pix_band"
    /\ calls' = Append(calls, "get_pix_band")
    /\ LET r == get_pix_band(json)
       IN  IF r.kind = "raise"
           THEN pc' = "done" /\ ret' = Raise2(r.exc)
                /\ pix_band' = pix_band /\ etl' = etl
           ELSE pc' = "select" /\ ret' = ret
                /\ pix_band' = r.val /\ etl' = recon_mat
    /\ UNCHANGED <<inputs, json_io, util_io, ncalls, sel_in,
                   calc_method, bwpppe, recon_mat, wfs, red_fact,
                   rule, unit>>

\* Line 1078.
CallGetWfs ==
    /\ pc = "get_wfs"
    /\ calls' = Append(calls, "get_wfs")
    /\ LET r == get_wfs(par)
       IN  IF r.kind = "raise"
           THEN pc' = "done" /\ ret' = Raise2(r.exc) /\ wfs' = wfs
           ELSE pc' = "get_etl" /\ ret' = ret /\ wfs' = r.val
    /\ UNCHANGED <<inputs, json_io, util_io, ncalls, sel_in,
                   calc_method, bwpppe, recon_mat, pix_band, etl, red_fact,
                   rule, unit>>

\* Line 1079.
CallGetEtl ==
    /\ pc = "get_etl"
    /\ calls' = Append(calls, "get_etl")
    /\ LET r == get_etl(par)
       IN  IF r.kind = "raise"
           THEN pc' = "done" /\ ret' = Raise2(r.exc) /\ etl' = etl
           ELSE pc' = "get_red_fact" /\ ret' = ret /\ etl' = r.val
    /\ UNCHANGED <<inputs, json_io, util_io, ncalls, sel_in,
                   calc_method, bwpppe, recon_mat, pix_band, wfs, red_fact,
                   rule, unit>>

\* Line 1080.
CallGetRedFact ==
    /\ pc = "get_red_fact"
    /\ calls' = Append(calls, "get_red_fact")
    /\ LET r == get_red_fact(par)
       IN  IF r.kind = "raise"
           THEN pc' = "done" /\ ret' = Raise2(r.exc) /\ red_fact' = red_fact
           ELSE pc' = "select" /\ ret' = ret /\ red_fact' = r.val
    /\ UNCHANGED <<inputs, json_io, util_io, ncalls, sel_in,
                   calc_method, bwpppe, recon_mat, pix_band, wfs, etl,
                   rule, unit>>

\* Lines 1082-1101.
SelectFormula ==
    /\ pc = "select"
    /\ calls' = Append(calls, "select")
    /\ rule' = select_rule(Fields)
    /\ ret' = select_formula(Fields)
    /\ red_fact' = IF select_rule(Fields) = 2 /\ ~Truthy(red_fact)
                   THEN IntVal(1) ELSE red_fact
    /\ sel_in' = Fields
    /\ pc' = "done"
    /\ UNCHANGED <<inputs, json_io, util_io, ncalls, calc_method, bwpppe, recon_mat, pix_band,
                   wfs, etl, unit>>

\* The paths a sequence of calls is made with.
SeqFiles == {<<"a", ".", "d", "c", "m">>, <<"a", ".", "P", "A", "R">>,
             <<"a", ".", "n", "i", "i">>}
SeqSidecars == {<<>>, <<"a", ".", "j", "s", "o", "n">>}

\* A further call that would find calc_method as the call before left it.
NewCall_global_method ==
    /\ pc = "done"
    /\ ncalls < MaxCalls
    /\ file' \in SeqFiles
    /\ json_file' \in SeqSidecars
    /\ ncalls' = ncalls + 1
    /\ pc' = "start"
    /\ bwpppe' = Unbound /\ recon_mat' = Unbound /\ pix_band' = Unbound
    /\ wfs' = Unbound /\ etl' = Unbound /\ red_fact' = Unbound
    /\ rule' = 0 /\ calls' = <<>> /\ ret' = NoResult2
    /\ sel_in' = [bwpppe |-> Unbound, recon_mat |-> Unbound, pix_band |-> Unbound,
                  wfs |-> Unbound, etl |-> Unbound, red_fact |-> Unbound]
    /\ UNCHANGED <<cwd, par, bwp, json, json_io, util_io, unit, calc_method>>

\* Line 997: calc_read_time is entered again, for another path and with or
\* without the sidecar's path.  The call before has returned or raised; the
\* new one starts with a frame of its own, nothing assigned, and the files
\* on disk are as they were.
NewCall ==
    /\ pc = "done"
    /\ ncalls < MaxCalls
    /\ file' \in SeqFiles
    /\ json_file' \in SeqSidecars
    /\ ncalls' = ncalls + 1
    /\ pc' = "start"
    /\ calc_method' = "unbound"
    /\ bwpppe' = Unbound /\ recon_mat' = Unbound /\ pix_band' = Unbound
    /\ wfs' = Unbound /\ etl' = Unbound /\ red_fact' = Unbound
    /\ rule' = 0 /\ calls' = <<>> /\ ret' = NoResult2
    /\ sel_in' = [bwpppe |-> Unbound, recon_mat |-> Unbound, pix_band |-> Unbound,
                  wfs |-> Unbound, etl |-> Unbound, red_fact |-> Unbound]
    /\ UNCHANGED <<cwd, par, bwp, json, json_io, util_io, unit>>

(***************************************************************************)
(* A PAR extractor called on its own on the header par.                    *)
(***************************************************************************)
UnitCall(name, result) ==
    /\ pc = "unit"
    /\ xfn' = name
    /\ xret' = result
    /\ pc' = "unit_done"
    /\ UNCHANGED <<inputs, json_io, util_io, ncalls, sel_in,
                   calc_method, locals, rule, calls, ret>>

UnitGetEtl == UnitCall("get_etl", get_etl(par))
UnitGetWfs == UnitCall("get_wfs", get_wfs(par))
UnitGetRedFact == UnitCall("get_red_fact", get_red_fact(par))
UnitGetMb == UnitCall("get_mb", get_mb(par))
UnitGetScanTime == UnitCall("get_scan_time", get_scan_time(par))

(***************************************************************************)
(* update_json on the file jfile with the dictionary jarg.  A file is      *)
(* absent, empty, not JSON, or holds a JSON object, which like a Python    *)
(* dict is the value under each key (Missing: no such key).                *)
(***************************************************************************)
Dicts == [ReconMatrixPE : JsonVals, PixelBandwidth : JsonVals]
EmptyJsonFile ==
    [kind |-> "empty", data |-> [ReconMatrixPE |-> Missing, PixelBandwidth |-> Missing]]
JsonFiles ==
    [kind : {"absent", "empty", "malformed"}, data : {EmptyJsonFile.data}]
        \cup [kind : {"object"}, data : Dicts]
PathVal == [t |-> "path", n |-> 0, d |-> 1]

\* read_json: open() of a missing file raises FileNotFoundError, json.load
\* of an empty or malformed one JSONDecodeError.  The absolute path is never
\* the empty string, so the else branch of line 417 is not taken.
read_json(f) ==
    CASE f.kind = "absent" -> [kind |-> "raise", exc |-> "FileNotFoundError", val |-> f.data]
      [] f.kind = "object" -> [kind |-> "return", exc |-> "", val |-> f.data]
      [] OTHER -> [kind |-> "raise", exc |-> "JSONDecodeError", val |-> f.data]

\* dict.update: every key of u is set in d.
dict_update(d, u) == [k \in DOMAIN d |-> IF u[k] # Missing THEN u[k] ELSE d[k]]

\* Lines 472-482.  A missing file is first created empty (472-473); then
\* the file is read, updated and written back.  An exception of read_json
\* leaves the file as it then is.
UpdateJson ==
    /\ pc = "unit"
    /\ xfn' = "update_json"
    /\ LET created == IF jfile.kind = "absent" THEN EmptyJsonFile ELSE jfile
           data_orig == read_json(created)
       IN  IF data_orig.kind = "raise"
           THEN jfile' = created /\ xret' = Raise(data_orig.exc)
           ELSE /\ jfile' = [kind |-> "object", data |-> dict_update(data_orig.val, jarg)]
                /\ xret' = Return(PathVal)
    /\ pc' = "unit_done"
    /\ UNCHANGED <<inputs, jarg, util_io, ncalls, sel_in,
                   calc_method, locals, rule, calls, ret>>

(***************************************************************************)
(* list_in_substr(in_list, in_str).  The loop returns in its first         *)
(* iteration, on either branch; with no word it falls off the end of the   *)
(* function, which returns None.  any(... for element in in_str.lower())   *)
(* evaluates the same test once per character of in_str, so it is False    *)
(* for the empty string whatever the word.                                 *)
(***************************************************************************)
True == [t |-> "bool", n |-> 1, d |-> 1]
False == [t |-> "bool", n |-> 0, d |-> 1]
None == [t |-> "none", n |-> 0, d |-> 1]

any_in(word, str) ==
    \E element \in 1..Len(Lower(str)) : Contains(Lower(word), Lower(str))

list_in_substr(list, str) ==
    IF Len(list) = 0 THEN Return(None)
    ELSE IF any_in(list[1], str) THEN Return(True)
    ELSE Return(False)

ListInSubstr ==
    /\ pc = "unit"
    /\ xfn' = "list_in_substr"
    /\ xret' = list_in_substr(in_list, in_str)
    /\ pc' = "unit_done"
    /\ UNCHANGED <<inputs, json_io, util_io, ncalls, sel_in,
                   calc_method, locals, rule, calls, ret>>

(***************************************************************************)
(* BIDSimg.  A path is the directory, the file name without extension and  *)
(* the extension; NoPath stands for the empty string.  disk is the set of  *)
(* the files that exist; every directory named exists.                     *)
(***************************************************************************)
Dirs == {"w", "t", "u"}
Names == {"a", "b"}
SidecarExts == {"json", "bval", "bvec"}
NoPath == [dir |-> "", name |-> "", ext |-> ""]
ListsVal == [t |-> "lists", n |-> 0, d |-> 1]

\* list.sort() on paths of one directory and one extension: by file name.
NameRank(name) == IF name = "a" THEN 1 ELSE 2
RECURSIVE sort(_)
sort(S) ==
    IF S = {} THEN <<>>
    ELSE LET m == CHOOSE x \in S : \A y \in S : NameRank(x.name) <= NameRank(y.name)
         IN  <<m>> \o sort(S \ {m})

\* glob.glob(os.path.join(work_dir, "*.nii*")).
glob_nii(work_dir, d) == {p \in d : p.dir = work_dir /\ p.ext = "nii"}

\* NiiFile(img).file_parts(): the directory, the name and the extension.
file_parts(img) == <<img.dir, img.name, img.ext>>

\* Lines 142-162: os.path.join(path, file + ext), appended if it exists,
\* the empty string if not.
sidecar_or_empty(img, ext, d) ==
    LET side == [dir |-> file_parts(img)[1], name |-> file_parts(img)[2], ext |-> ext]
    IN  IF side \in d THEN side ELSE NoPath

\* BIDSimg(work_dir).
Construct ==
    /\ pc = "unit"
    /\ \E work_dir \in Dirs :
          LET imgs == sort(glob_nii(work_dir, disk))
          IN  bids' = [imgs |-> imgs,
                       jsons |-> [i \in 1..Len(imgs) |-> sidecar_or_empty(imgs[i], "json", disk)],
                       bvals |-> [i \in 1..Len(imgs) |-> sidecar_or_empty(imgs[i], "bval", disk)],
                       bvecs |-> [i \in 1..Len(imgs) |-> sidecar_or_empty(imgs[i], "bvec", disk)]]
    /\ xfn' = "BIDSimg"
    /\ xret' = Return(ListsVal)
    /\ pc' = "obj"
    /\ UNCHANGED <<inputs, json_io, in_list, in_str, disk, ncalls, sel_in,
                   calc_method, locals, rule, calls, ret>>

\* shutil.copy(src, target_dir): the copy's path; FileNotFoundError when src
\* does not exist (the empty string never does), SameFileError when src is
\* in target_dir already.
copy(src, target_dir, d) ==
    IF src \notin d
    THEN [kind |-> "raise", exc |-> "FileNotFoundError", path |-> NoPath, disk |-> d]
    ELSE IF src.dir = target_dir
    THEN [kind |-> "raise", exc |-> "SameFileError", path |-> NoPath, disk |-> d]
    ELSE [kind |-> "return", exc |-> "", path |-> [src EXCEPT !.dir = target_dir],
          disk |-> d \cup {[src EXCEPT !.dir = target_dir]}]

\* Lines 203-205: no exception is caught.
RECURSIVE copy_imgs(_, _, _, _, _)
copy_imgs(list, i, target_dir, acc, d) ==
    IF i > Len(list) THEN [exc |-> "", list |-> acc, disk |-> d]
    ELSE LET r == copy(list[i], target_dir, d)
         IN  IF r.kind = "raise" THEN [exc |-> r.exc, list |-> acc, disk |-> d]
             ELSE copy_imgs(list, i + 1, target_dir, Append(acc, r.path), r.disk)

\* The sidecar loop that would skip a file it does not find.
RECURSIVE copy_sidecars_skip_missing(_, _, _, _, _)
copy_sidecars_skip_missing(list, i, target_dir, acc, d) ==
    IF i > Len(list) THEN [exc |-> "", list |-> acc, disk |-> d]
    ELSE LET r == copy(list[i], target_dir, d)
         IN  IF r.kind = "raise" /\ r.exc = "FileNotFoundError"
             THEN copy_sidecars_skip_missing(list, i + 1, target_dir, acc, d)
             ELSE IF r.kind = "raise" THEN [exc |-> r.exc, list |-> acc, disk |-> d]
             ELSE copy_sidecars_skip_missing(list, i + 1, target_dir,
                                             Append(acc, r.path), r.disk)

\* Lines 208-230: FileNotFoundError is caught and the empty string appended.
RECURSIVE copy_sidecars(_, _, _, _, _)
copy_sidecars(list, i, target_dir, acc, d) ==
    IF i > Len(list) THEN [exc |-> "", list |-> acc, disk |-> d]
    ELSE LET r == copy(list[i], target_dir, d)
         IN  IF r.kind = "raise" /\ r.exc = "FileNotFoundError"
             THEN copy_sidecars(list, i + 1, target_dir, Append(acc, NoPath), d)
             ELSE IF r.kind = "raise" THEN [exc |-> r.exc, list |-> acc, disk |-> d]
             ELSE copy_sidecars(list, i + 1, target_dir, Append(acc, r.path), r.disk)

\* copy_img_data(target_dir): the attributes are emptied (lines 197-200) and
\* refilled loop by loop; an exception leaves them as far as they got.
CopyImgData ==
    /\ pc = "obj"
    /\ \E target_dir \in Dirs :
          LET i == copy_imgs(bids.imgs, 1, target_dir, <<>>, disk)
              j == copy_sidecars(bids.jsons, 1, target_dir, <<>>, i.disk)
              v == copy_sidecars(bids.bvals, 1, target_dir, <<>>, j.disk)
              c == copy_sidecars(bids.bvecs, 1, target_dir, <<>>, v.disk)
          IN  CASE i.exc # "" ->
                     /\ bids' = [imgs |-> i.list, jsons |-> <<>>, bvals |-> <<>>,
                                 bvecs |-> <<>>]
                     /\ disk' = i.disk /\ xret' = Raise(i.exc)
                [] i.exc = "" /\ j.exc # "" ->
                     /\ bids' = [imgs |-> i.list, jsons |-> j.list, bvals |-> <<>>,
                                 bvecs |-> <<>>]
                     /\ disk' = j.disk /\ xret' = Raise(j.exc)
                [] i.exc = "" /\ j.exc = "" /\ v.exc # "" ->
                     /\ bids' = [imgs |-> i.list, jsons |-> j.list, bvals |-> v.list,
                                 bvecs |-> <<>>]
                     /\ disk' = v.disk /\ xret' = Raise(v.exc)
                [] OTHER ->
                     /\ bids' = [imgs |-> i.list, jsons |-> j.list, bvals |-> v.list,
                                 bvecs |-> c.list]
                     /\ disk' = c.disk
                     /\ xret' = IF c.exc # "" THEN Raise(c.exc) ELSE Return(ListsVal)
    /\ xfn' = "copy_img_data"
    /\ pc' = "obj"
    /\ UNCHANGED <<inputs, json_io, in_list, in_str, ncalls, sel_in,
                   calc_method, locals, rule, calls, ret>>

(***************************************************************************)
(* Specifications.                                                         *)
(***************************************************************************)
Files == {<<"a", ".", "d", "c", "m">>,
          <<"a", ".", "P", "A", "R">>,
          <<"a", ".", "D", "C", "M">>,
          <<"a", ".", "p", "a", "r">>,
          <<"a", ".", "n", "i", "i">>,
          <<"/", "P", "A", "R", "/", "a", ".", "d", "c", "m">>,
          <<"/", "d", "c", "m", "/", "a", ".", "P", "A", "R">>}
Cwds == {<<"/", "w">>, <<"/", "d", "c", "m">>}
SidecarPath == <<"a", ".", "j", "s", "o", "n">>
NoFile == <<"-">>

InitLocals ==
    /\ calc_method = "unbound"
    /\ bwpppe = Unbound /\ recon_mat = Unbound /\ pix_band = Unbound
    /\ wfs = Unbound /\ etl = Unbound /\ red_fact = Unbound

NoFields == [bwpppe |-> Unbound, recon_mat |-> Unbound, pix_band |-> Unbound,
             wfs |-> Unbound, etl |-> Unbound, red_fact |-> Unbound]

InitRest ==
    /\ rule = 0 /\ calls = <<>> /\ ret = NoResult2
    /\ xfn = "" /\ xret = NoResult
    /\ sel_in = NoFields

\* update_json is not called: its file does not exist, its argument is empty.
NoKeys == [ReconMatrixPE |-> Missing, PixelBandwidth |-> Missing]
NoJsonFile == [kind |-> "absent", data |-> NoKeys]
InitNoJson == jfile = NoJsonFile /\ jarg = NoKeys

\* list_in_substr is not called and no BIDSimg object exists.
NoBids == [imgs |-> <<>>, jsons |-> <<>>, bvals |-> <<>>, bvecs |-> <<>>]
InitNoUtil == in_list = <<>> /\ in_str = <<>> /\ bids = NoBids /\ disk = {}

\* One call of calc_read_time(file, json_file).  The raw file is a DICOM
\* file (a header tag, no PAR text) or a PAR header; the sidecar, when its
\* path is given, is any of Sidecars.
Init ==
    /\ cwd \in Cwds
    /\ file \in Files
    /\ \/ bwp \in BwpVals /\ par = <<>>
       \/ bwp = Empty /\ par \in HeadersOver(RunLabels)
    /\ \/ json_file = <<>> /\ json = Malformed
       \/ json_file = SidecarPath /\ json \in Sidecars
    /\ pc = "start"
    /\ ncalls = 1
    /\ InitLocals
    /\ InitRest
    /\ InitNoJson
    /\ InitNoUtil

Next ==
    \/ DetectFormat
    \/ Dispatch
    \/ CallGetBwpppe
    \/ CallGetReconMat
    \/ CallGetPixBand
    \/ CallGetWfs
    \/ CallGetEtl
    \/ CallGetRedFact
    \/ SelectFormula

Spec == Init /\ [][Next]_vars

\* The formula selection alone, over every combination of the six locals.
FieldVals == {Empty, Frac(3, 2)} \cup {IntVal(n) : n \in -1..MaxVal}

InitSel ==
    /\ cwd = <<"/", "w">> /\ file = NoFile /\ json_file = <<>>
    /\ par = <<>> /\ bwp = Empty /\ json = Malformed
    /\ pc = "select"
    /\ calc_method = "unbound"
    /\ bwpppe \in FieldVals /\ recon_mat \in FieldVals /\ pix_band \in FieldVals
    /\ wfs \in FieldVals /\ etl \in FieldVals /\ red_fact \in FieldVals
    /\ ncalls = 1
    /\ InitRest
    /\ InitNoJson
    /\ InitNoUtil

NextSel == SelectFormula

SpecSel == InitSel /\ [][NextSel]_vars

\* Each PAR extractor alone, over every header.
InitPar ==
    /\ cwd = <<"/", "w">> /\ file = <<"a", ".", "P", "A", "R">> /\ json_file = <<>>
    /\ par \in HeadersOver(AllLabels) /\ bwp = Empty /\ json = Malformed
    /\ pc = "unit"
    /\ ncalls = 0
    /\ InitLocals
    /\ InitRest
    /\ InitNoJson
    /\ InitNoUtil

NextPar ==
    \/ UnitGetEtl
    \/ UnitGetWfs
    \/ UnitGetRedFact
    \/ UnitGetMb
    \/ UnitGetScanTime

SpecPar == InitPar /\ [][NextPar]_vars

\* Several calls of calc_read_time one after another, on the same disk: a
\* raw file that is read as DICOM or as PAR text according to the path it
\* is called by, and a sidecar that a call names or not.  The PAR text has
\* its EPI line first and its Water Fat shift line second.
SeqHeaders ==
    {h \in HeadersOver({"EPI", "WFS"}) :
        \A i \in 1..Len(h) :
            h[i].label = CASE i = 1 -> "EPI" [] i = 2 -> "WFS" [] OTHER -> "OTHER"}

InitSeq ==
    /\ cwd = <<"/", "w">>
    /\ file \in SeqFiles
    /\ json_file \in SeqSidecars
    /\ bwp \in BwpVals
    /\ par \in SeqHeaders
    /\ json \in Sidecars
    /\ pc = "start"
    /\ ncalls = 1
    /\ InitLocals
    /\ InitRest
    /\ InitNoJson
    /\ InitNoUtil

NextSeq ==
    \/ Next
    \/ NewCall

SpecSeq == InitSeq /\ [][NextSeq]_vars

\* update_json alone, over every file and every dictionary.
InitJson ==
    /\ cwd = <<"/", "w">> /\ file = NoFile /\ json_file = SidecarPath
    /\ par = <<>> /\ bwp = Empty /\ json = Malformed
    /\ pc = "unit"
    /\ ncalls = 0
    /\ InitLocals
    /\ InitRest
    /\ jfile \in JsonFiles
    /\ jarg \in Dicts
    /\ InitNoUtil

NextJson == UpdateJson

SpecJson == InitJson /\ [][NextJson]_vars

\* list_in_substr alone, over lists of up to MaxWords words.
Words == {<<"T", "1">>, <<"t", "2">>, <<"D", "C">>, <<>>}
Strs == {<<>>, <<"a", "_", "t", "1">>, <<"T", "2">>, <<"d", "c", "m">>}

InitSub ==
    /\ cwd = <<"/", "w">> /\ file = NoFile /\ json_file = <<>>
    /\ par = <<>> /\ bwp = Empty /\ json = Malformed
    /\ pc = "unit"
    /\ ncalls = 0
    /\ InitLocals
    /\ InitRest
    /\ InitNoJson
    /\ in_list \in UNION {[1..k -> Words] : k \in 0..MaxWords}
    /\ in_str \in Strs
    /\ bids = NoBids /\ disk = {}

NextSub == ListInSubstr

SpecSub == InitSub /\ [][NextSub]_vars

\* A BIDSimg object built on any directory and copied any number of
\* times; at first the files are those of the conversion's working
\* directory, any of the images and sidecars of Names.
WorkFiles == [dir : {"w"}, name : Names, ext : {"nii"} \cup SidecarExts]

InitBids ==
    /\ cwd = <<"/", "w">> /\ file = NoFile /\ json_file = <<>>
    /\ par = <<>> /\ bwp = Empty /\ json = Malformed
    /\ pc = "unit"
    /\ ncalls = 0
    /\ InitLocals
    /\ InitRest
    /\ InitNoJson
    /\ in_list = <<>> /\ in_str = <<>>
    /\ bids = NoBids
    /\ disk \in SUBSET WorkFiles

NextBids ==
    \/ Construct
    \/ CopyImgData

SpecBids == InitBids /\ [][NextBids]_vars

(***************************************************************************)
(* The documented selection policy and formulas, stated on their own.      *)
(* A field is present when it is a non-zero number.                        *)
(***************************************************************************)
Present(v) == v.t = "num" /\ v.n # 0

Satisfied(k) ==
    CASE k = 1 -> Present(bwpppe) /\ Present(recon_mat)
      [] k = 2 -> Present(wfs) /\ Present(etl)
      [] k = 3 -> Present(pix_band) /\ Present(etl)
      [] k = 4 -> Present(pix_band) /\ Present(recon_mat)
      [] OTHER -> FALSE

FirstSatisfied ==
    IF \E k \in 1..4 : Satisfied(k)
    THEN CHOOSE k \in 1..4 : Satisfied(k) /\ \A j \in 1..(k - 1) : ~Satisfied(j)
    ELSE 5

OnlyRule(k) == Satisfied(k) /\ \A j \in (1..4) \ {k} : ~Satisfied(j)

\* RedFact as the documented rule 2 reads it: 1 when absent.  A call that
\* took branch 2 has already stored that 1 in red_fact.
DocRedFact == IF Present(red_fact) THEN red_fact ELSE IntVal(1)

\* The documented formulas as single fractions over the numerators and
\* denominators of the fields (434.215 = 86843/200, 1.3 = 13/10).
DocDefined(k) == k # 2 \/ etl.n + etl.d # 0

DocEff(k) ==
    CASE k = 1 -> Frac(bwpppe.d * recon_mat.d, bwpppe.n * recon_mat.n)
      [] k = 2 -> Frac(200000 * wfs.n * etl.d * DocRedFact.d,
                       86843 * wfs.d * (etl.n + etl.d) * DocRedFact.n)
      [] k = 3 -> Frac(13 * pix_band.d * (etl.n - etl.d), 10 * pix_band.n * etl.n)
      [] k = 4 -> Frac(13 * pix_band.d * (recon_mat.n - recon_mat.d),
                       10 * pix_band.n * recon_mat.n)

DocTot(k) ==
    CASE k = 1 -> Frac(bwpppe.d * (recon_mat.n - recon_mat.d), bwpppe.n * recon_mat.n)
      [] k = 2 -> Frac(200 * wfs.n * etl.n * DocRedFact.d,
                       86843 * wfs.d * (etl.n + etl.d) * DocRedFact.n)
      [] k = 3 -> Frac(13 * pix_band.d * (etl.n - etl.d) * (etl.n - etl.d),
                       10 * pix_band.n * etl.n * etl.d)
      [] k = 4 -> Frac(13 * pix_band.d * (recon_mat.n - recon_mat.d)
                          * (recon_mat.n - recon_mat.d),
                       10 * pix_band.n * recon_mat.n * recon_mat.d)

Approach(k) ==
    CASE k = 1 -> approach1(Fields)
      [] k = 2 -> approach2(Fields)
      [] k = 3 -> approach3(Fields)
      [] k = 4 -> approach4(Fields)
      [] OTHER -> Return2(Empty, Empty)

(***************************************************************************)
(* C1: at the formula selection, whatever fields are present or absent,    *)
(* the branch taken is the first of rules 1..4 whose required fields are   *)
(* all present (the else branch when there is none), and the outcome is    *)
(* that one rule's; with the fields of rules 1 and 2 all present it is     *)
(* rule 1's.                                                               *)
(***************************************************************************)
C1_FirstMatchWins ==
    pc = "done" =>
        /\ rule = FirstSatisfied
        /\ ret = Approach(FirstSatisfied)
        /\ (Satisfied(1) /\ Satisfied(2) => rule = 1 /\ ret = approach1(Fields))

C1_Witness ==
    /\ pc = "done"
    /\ Satisfied(1) /\ Satisfied(2)
    /\ rule = 1
    /\ ret.kind = "return"
    /\ ret # approach2(Fields)

(***************************************************************************)
(* C2: when the fields present satisfy one rule only, and the documented   *)
(* formula of that rule is defined on them, the call returns the pair the  *)
(* documented formula gives.                                               *)
(***************************************************************************)
C2_DocumentedFormulas ==
    \A k \in 1..4 :
        pc = "done" /\ OnlyRule(k) /\ DocDefined(k) =>
            ret = Return2(DocEff(k), DocTot(k))

C2_Witness ==
    /\ pc = "done"
    /\ OnlyRule(4)
    /\ recon_mat = Frac(3, 2)
    /\ ret.kind = "return"
    /\ Truthy(ret.tot)

(***************************************************************************)
(* C3: a value calc_read_time returns is all or nothing: the two outputs   *)
(* are both the empty string or both numbers, and two numbers are the      *)
(* pair one rule, whose fields are present, gives.                         *)
(***************************************************************************)
C3_AllOrNothing ==
    pc = "done" /\ ret.kind = "return" =>
        /\ ret.eff = Empty <=> ret.tot = Empty
        /\ ret.eff # Empty =>
              \E k \in 1..4 : Satisfied(k) /\ ret = Approach(k)
        /\ ret.eff = Empty => \A k \in 1..4 : ~Satisfied(k)

C3_Witness ==
    /\ pc = "done"
    /\ calc_method = "dcm"
    /\ ret.kind = "return"
    /\ ret.eff # Empty /\ ret.tot # Empty
    /\ rule = 3

(***************************************************************************)
(* C4: a call on an acquisition of a detected format none of whose header  *)
(* fields is there (no BWPPPE tag and no sidecar, or a well-formed sidecar *)
(* without the keys; a PAR header without the three labels) returns the    *)
(* undetermined pair.                                                      *)
(***************************************************************************)
SidecarGiven == Len(json_file) > 0

HeaderAllAbsent ==
    CASE calc_method = "dcm" ->
            /\ ~Present(bwp)
            /\ \/ ~SidecarGiven
               \/ json.ok /\ json.ReconMatrixPE = Missing
                          /\ json.PixelBandwidth = Missing
      [] calc_method = "par" ->
            \A i \in 1..Len(par) : par[i].label \notin RunLabels
      [] OTHER -> FALSE

C4_AllAbsentUndetermined ==
    pc = "done" /\ HeaderAllAbsent => ret = Return2(Empty, Empty)

(***************************************************************************)
(* C5: a call whose absolute path holds neither "dcm" nor "PAR" fails      *)
(* with UnknownFormatError.                                                *)
(***************************************************************************)
HasDcm == Contains(<<"d", "c", "m">>, abspath(file))
HasPAR == Contains(<<"P", "A", "R">>, abspath(file))

C5_UnknownFormatError ==
    pc = "done" /\ ~HasDcm /\ ~HasPAR =>
        ret.kind = "raise" /\ ret.exc = "UnknownFormatError"

(***************************************************************************)
(* C6: in every call the format detection comes first and once, only the   *)
(* extractors of the detected format are invoked, each at most once, the   *)
(* formula selection comes after them, and a call whose path matches       *)
(* neither format fails with no extractor invoked.                         *)
(***************************************************************************)
DcmExtractors == {"get_bwpppe", "get_recon_mat", "get_pix_band"}
ParExtractors == {"get_wfs", "get_etl", "get_red_fact"}
ExtractorsOf(method) ==
    CASE method = "dcm" -> DcmExtractors
      [] method = "par" -> ParExtractors
      [] OTHER -> {}

C6_DetectExtractSelect ==
    /\ pc # "start" => Len(calls) > 0 /\ calls[1] = "detect"
    /\ \A i \in 1..Len(calls) :
          /\ calls[i] = "detect" => i = 1
          /\ calls[i] \in DcmExtractors \cup ParExtractors =>
                calls[i] \in ExtractorsOf(calc_method)
          /\ calls[i] = "select" => i = Len(calls) /\ pc = "done"
          /\ \A j \in 1..Len(calls) : calls[i] = calls[j] => i = j
    /\ pc \in {"dispatch", "done"} /\ ~HasDcm /\ ~HasPAR => calls = <<"detect">>
    /\ pc = "done" /\ ~HasDcm /\ ~HasPAR => ret.kind = "raise"

C6_Witness ==
    /\ pc = "done"
    /\ calls = <<"detect", "get_wfs", "get_etl", "get_red_fact", "select">>
    /\ ret.kind = "return"

(***************************************************************************)
(* C7: with a well-formed sidecar that lacks ReconMatrixPE (PixelBandwidth)*)
(* the call raises nothing and goes on to the formula selection with that  *)
(* field empty.                                                            *)
(***************************************************************************)
C7_MissingKeyAbsent ==
    pc = "done" /\ calc_method = "dcm" /\ SidecarGiven /\ json.ok
       /\ (json.ReconMatrixPE = Missing \/ json.PixelBandwidth = Missing) =>
        /\ ret.kind = "return"
        /\ json.ReconMatrixPE = Missing => recon_mat = Empty
        /\ json.PixelBandwidth = Missing => pix_band = Empty

LabelOf(fn) ==
    CASE fn = "get_etl" -> "EPI"
      [] fn = "get_wfs" -> "WFS"
      [] fn = "get_red_fact" -> "SENSE"
      [] fn = "get_mb" -> "MB"
      [] fn = "get_scan_time" -> "SCAN"
      [] OTHER -> "OTHER"

C9_NoLabelNoRaise ==
    pc = "unit_done" /\ (\A i \in 1..Len(par) : par[i].label # LabelOf(xfn)) =>
        xret.kind = "return" /\ xret.val \in {Empty, IntVal(1), Unknown}

(***************************************************************************)
(* C10: on a header with SENSE lines, each carrying a number, get_red_fact *)
(* returns the number of a SENSE line, whatever lines follow it.           *)
(***************************************************************************)
C10_SenseValueReturned ==
    /\ pc = "unit_done" /\ xfn = "get_red_fact"
    /\ \E i \in 1..Len(par) : par[i].label = "SENSE"
    /\ \A i \in 1..Len(par) : par[i].label = "SENSE" => IsFloatLiteral(par[i].tok)
    => /\ xret.kind = "return"
       /\ \E i \in 1..Len(par) :
             par[i].label = "SENSE" /\ xret.val = ParseFloat(par[i].tok).val

(***************************************************************************)
(* C11: on a PAR header with no SENSE line get_red_fact returns exactly    *)
(* 1.0 and raises nothing.                                                 *)
(***************************************************************************)
C11_NoSenseIsOne ==
    pc = "unit_done" /\ xfn = "get_red_fact"
       /\ (\A i \in 1..Len(par) : par[i].label # "SENSE") =>
        xret = Return(IntVal(1))

(***************************************************************************)
(* C12: when rule 2 is selected and RedFact is absent (the empty string or *)
(* 0), the outcome is the one obtained from the same fields with RedFact   *)
(* given as 1, and the formula has read RedFact as 1.                      *)
(***************************************************************************)
C12_RedFactDefault ==
    pc = "done" /\ rule = 2 /\ ~Present(sel_in.red_fact) =>
        /\ ret = select_formula([sel_in EXCEPT !.red_fact = IntVal(1)])
        /\ ret.kind = "return" =>
              /\ ret.eff = Frac(200000 * wfs.n * etl.d, 86843 * wfs.d * (etl.n + etl.d))
              /\ ret.tot = Frac(200 * wfs.n * etl.n, 86843 * wfs.d * (etl.n + etl.d))
        /\ red_fact = IntVal(1)

C12_Witness ==
    /\ pc = "done" /\ rule = 2
    /\ sel_in.red_fact = Empty
    /\ sel_in.wfs = Frac(3, 2) /\ sel_in.etl = IntVal(2)
    /\ ret.kind = "return"
(***************************************************************************)
(* C13: in a call that detected DICOM, WFS and RedFact are never numbers;  *)
(* in a call that detected PAR, BWPPPE, ReconMatrixPE and PixelBandwidth   *)
(* are never numbers.  So the branch taken in a PAR call is 2 or the else  *)
(* branch, and in a DICOM call it is never 2.                              *)
(***************************************************************************)
C13_FormatFields ==
    /\ calc_method = "dcm" =>
          /\ wfs.t # "num" /\ red_fact.t # "num"
          /\ rule # 2
    /\ calc_method = "par" =>
          /\ bwpppe.t # "num" /\ recon_mat.t # "num" /\ pix_band.t # "num"
          /\ rule \in {0, 2, 5}
          /\ pc = "done" /\ ret.kind = "return" =>
                \/ rule = 2 /\ ret.eff # Empty
                \/ rule = 5 /\ ret = Return2(Empty, Empty)

C13_Witness ==
    /\ pc = "done"
    /\ calc_method = "par"
    /\ rule = 2
    /\ ret.kind = "return"
    /\ Present(wfs) /\ Present(etl)

(***************************************************************************)
(* C14: in a DICOM call ETL is only ever unassigned, empty or the value of *)
(* ReconMatrixPE; with a sidecar, the ETL the formula selection reads is   *)
(* the ReconMatrixPE read from the sidecar, present exactly when that is.  *)
(***************************************************************************)
C14_EtlIsReconMat ==
    calc_method = "dcm" =>
        /\ etl \in {Unbound, Empty, recon_mat}
        /\ SidecarGiven /\ (pc = "select" \/ rule # 0) =>
              /\ etl = recon_mat
              /\ recon_mat = IF json.ok THEN json.ReconMatrixPE ELSE Empty
              /\ Present(etl) <=> Present(recon_mat)
        /\ rule # 0 => sel_in.etl = sel_in.recon_mat

C14_Witness ==
    /\ pc = "done"
    /\ calc_method = "dcm" /\ SidecarGiven
    /\ Present(etl) /\ etl = json.ReconMatrixPE
    /\ rule = 3

(***************************************************************************)
(* C15: the branch taken is one whose required fields were all present     *)
(* (non-empty, non-zero numbers) when the selection began, the RedFact     *)
(* rule 2 divides by is present, and a determined result comes from such   *)
(* a branch: no absent field is read as a number.                          *)
(***************************************************************************)
SatisfiedIn(f, k) ==
    CASE k = 1 -> Present(f.bwpppe) /\ Present(f.recon_mat)
      [] k = 2 -> Present(f.wfs) /\ Present(f.etl)
      [] k = 3 -> Present(f.pix_band) /\ Present(f.etl)
      [] k = 4 -> Present(f.pix_band) /\ Present(f.recon_mat)
      [] OTHER -> FALSE

C15_AbsentNeverUsed ==
    pc = "done" =>
        /\ rule \in 1..4 => SatisfiedIn(sel_in, rule)
        /\ rule = 2 => Present(red_fact)
        /\ ret.kind = "return" /\ ret.eff # Empty => rule \in 1..4
        /\ rule = 5 => ret = Return2(Empty, Empty)

C15_Witness ==
    /\ pc = "done"
    /\ rule = 4
    /\ sel_in.etl = IntVal(0) /\ sel_in.wfs = Empty
    /\ ret.kind = "return"
(***************************************************************************)
(* C16, as stated: a PAR extractor whose label line carries a token that   *)
(* is not a literal of the field's type (an integer for get_etl and        *)
(* get_mb, a float for the others) fails with HeaderParseError.            *)
(***************************************************************************)
IntExtractors == {"get_etl", "get_mb"}
ValidToken(fn, tok) ==
    IF fn \in IntExtractors THEN IsIntLiteral(tok) ELSE IsFloatLiteral(tok)
HasInvalidToken ==
    \E i \in 1..Len(par) :
        par[i].label = LabelOf(xfn) /\ ~ValidToken(xfn, par[i].tok)

HoldsInARow(s, a, b, c) ==
    \E i \in 1..(Len(s) - 2) : s[i] = a /\ s[i + 1] = b /\ s[i + 2] = c

C17_CaseSensitiveFormat ==
    pc # "start" =>
        LET p == IF file[1] = "/" THEN file ELSE cwd \o <<"/">> \o file
        IN  /\ calc_method = "dcm" <=> HoldsInARow(p, "d", "c", "m")
            /\ calc_method = "par" =>
                  HoldsInARow(p, "P", "A", "R") /\ ~HoldsInARow(p, "d", "c", "m")
            /\ ~HoldsInARow(p, "d", "c", "m") /\ ~HoldsInARow(p, "P", "A", "R") =>
                  calc_method = "unbound"

C17_Witness ==
    /\ pc = "done"
    /\ file \in {<<"a", ".", "D", "C", "M">>, <<"a", ".", "p", "a", "r">>}
    /\ cwd = <<"/", "w">>
    /\ calc_method = "unbound"
    /\ calls = <<"detect">>
(***************************************************************************)
(* C18: on a header with no MB line get_mb returns the integer 1; on a     *)
(* header with no Scan Duration line get_scan_time returns 'unknown', not  *)
(* 0; on a header whose lines of the label all carry a valid number each   *)
(* returns the parsed number of the last such line.                        *)
(***************************************************************************)
LabelLines(l) == {i \in 1..Len(par) : par[i].label = l}
LastLine(l) == CHOOSE i \in LabelLines(l) : \A j \in LabelLines(l) : j <= i

C18_MbAndScanTimeDefaults ==
    pc = "unit_done" =>
        /\ xfn = "get_mb" /\ LabelLines("MB") = {} => xret = Return(IntVal(1))
        /\ xfn = "get_scan_time" /\ LabelLines("SCAN") = {} =>
              xret = Return(Unknown) /\ xret.val # IntVal(0)
        /\ /\ xfn = "get_mb" /\ LabelLines("MB") # {}
           /\ \A i \in LabelLines("MB") : IsIntLiteral(par[i].tok)
           => /\ xret.kind = "return"
              /\ xret.val.t = "num" /\ xret.val.d = 1
              /\ xret.val.n = Sign(par[LastLine("MB")].tok)
                                * DigitsVal(Unsigned(par[LastLine("MB")].tok))
        /\ /\ xfn = "get_scan_time" /\ LabelLines("SCAN") # {}
           /\ \A i \in LabelLines("SCAN") : IsFloatLiteral(par[i].tok)
           => /\ xret.kind = "return"
              /\ xret.val.t = "num"
              /\ xret.val = ParseFloat(par[LastLine("SCAN")].tok).val

C18_Witness ==
    /\ pc = "unit_done" /\ xfn = "get_scan_time"
    /\ Len(par) = MaxLines
    /\ LabelLines("SCAN") = {} /\ LabelLines("MB") # {}
    /\ xret = Return(Unknown)
(***************************************************************************)
(* C19: calc_read_time keeps nothing from one call to the next.  In any    *)
(* sequence of calls the outcome of each is the outcome the call has on    *)
(* its own, a function of its two paths and of the files on disk; no step  *)
(* writes the files, and no step of a call changes its arguments.          *)
(***************************************************************************)
FieldsAlone(method) ==
    LET rm == get_recon_mat(json)
        pb == get_pix_band(json)
        w == get_wfs(par)
        e == get_etl(par)
        r == get_red_fact(par)
        withJson == method = "dcm" /\ Len(json_file) > 0
    IN  [bwpppe |-> IF method = "dcm" THEN get_bwpppe(bwp).val ELSE Empty,
         recon_mat |-> IF withJson THEN rm.val ELSE Empty,
         pix_band |-> IF withJson THEN pb.val ELSE Empty,
         wfs |-> IF method = "par" THEN w.val ELSE Empty,
         etl |-> IF method = "par" THEN e.val
                 ELSE IF withJson THEN rm.val ELSE Empty,
         red_fact |-> IF method = "par" THEN r.val ELSE Empty]

FirstRaise(rs) ==
    IF \E i \in 1..Len(rs) : rs[i].kind = "raise"
    THEN LET i == CHOOSE k \in 1..Len(rs) :
                     rs[k].kind = "raise" /\ \A j \in 1..(k - 1) : rs[j].kind # "raise"
         IN  rs[i].exc
    ELSE ""

ResultAlone ==
    LET path == IF file[1] = "/" THEN file ELSE cwd \o <<"/">> \o file
        method == IF HoldsInARow(path, "d", "c", "m") THEN "dcm"
                  ELSE IF HoldsInARow(path, "P", "A", "R") THEN "par"
                  ELSE "none"
        exc == CASE method = "none" -> "UnboundLocalError"
                 [] method = "dcm" /\ Len(json_file) > 0 ->
                        FirstRaise(<<get_recon_mat(json), get_pix_band(json)>>)
                 [] method = "par" ->
                        FirstRaise(<<get_wfs(par), get_etl(par), get_red_fact(par)>>)
                 [] OTHER -> ""
    IN  IF exc # "" THEN Raise2(exc) ELSE select_formula(FieldsAlone(method))

PriorObject == IF jfile.kind = "object" THEN jfile.data ELSE NoKeys

C20_UpdateAlwaysSucceeds ==
    [][pc = "unit" /\ pc' = "unit_done" /\ jfile.kind \in {"absent", "object"} =>
          /\ xret' = Return(PathVal)
          /\ jfile'.kind = "object"
          /\ \A k \in DOMAIN jarg :
                jfile'.data[k] = IF jarg[k] # Missing THEN jarg[k] ELSE PriorObject[k]
      ]_vars
(***************************************************************************)
(* C21: list_in_substr returns True exactly when some word of the list,    *)
(* at whatever position, occurs in the string with case ignored, and       *)
(* False otherwise.                                                        *)
(***************************************************************************)
SameLetter(a, b) == LowerChar(a) = LowerChar(b)
OccursAt(word, str, i) ==
    /\ i + Len(word) - 1 <= Len(str)
    /\ \A j \in 1..Len(word) : SameLetter(word[j], str[i + j - 1])
OccursIn(word, str) == \E i \in 1..(Len(str) + 1) : OccursAt(word, str, i)

C21_AnyWordAnyPosition ==
    pc = "unit_done" /\ xfn = "list_in_substr" =>
        xret = IF \E k \in 1..Len(in_list) : OccursIn(in_list[k], in_str)
               THEN Return(True) ELSE Return(False)
(***************************************************************************)
(* C22: once a BIDSimg object is built, and after every copy_img_data,     *)
(* its four lists have one length and entry i of jsons, bvals and bvecs    *)
(* is the empty string or the file of imgs[i]'s directory and name with    *)
(* that extension; an entry that is the empty string before a copy that    *)
(* returns is the empty string after it.                                   *)
(***************************************************************************)
Belongs(side, img, ext) ==
    side.dir = img.dir /\ side.name = img.name /\ side.ext = ext

AlignedWith(list, ext) ==
    /\ Len(list) = Len(bids.imgs)
    /\ \A i \in 1..Len(list) :
          list[i] = NoPath \/ Belongs(list[i], bids.imgs[i], ext)

PlaceholdersKept(before, after) ==
    /\ Len(after) = Len(before)
    /\ \A i \in 1..Len(before) : before[i] = NoPath => after[i] = NoPath

C23_Rule4NeverWins ==
    /\ rule # 4
    /\ pc = "done" /\ rule # 0 /\ SatisfiedIn(sel_in, 4) =>
          /\ calc_method = "dcm"
          /\ sel_in.etl = sel_in.recon_mat
          /\ SatisfiedIn(sel_in, 3)
          /\ rule \in {1, 3}
    /\ calc_method = "par" => ~Present(pix_band) /\ ~Present(sel_in.pix_band)

C23_Witness ==
    /\ pc = "done"
    /\ calc_method = "dcm"
    /\ ~Present(bwpppe)
    /\ SatisfiedIn(sel_in, 4)
    /\ rule = 3
    /\ ret.kind = "return"
(***************************************************************************)
(* C24: no call of calc_read_time ends in a division by zero, whatever     *)
(* the extractors return, zero and negative values included.               *)
(***************************************************************************)
C24_NoZeroDivision ==
    pc = "done" => ~(ret.kind = "raise" /\ ret.exc = "ZeroDivisionError")
(***************************************************************************)
(* C25: a call whose absolute path holds both "dcm" and "PAR", in the      *)
(* file name or in a directory, is a DICOM call: get_wfs, get_etl and      *)
(* get_red_fact are never invoked and the second branch is never taken.    *)
(***************************************************************************)
AbsPath == IF file[1] = "/" THEN file ELSE cwd \o <<"/">> \o file
HoldsBoth ==
    HoldsInARow(AbsPath, "d", "c", "m") /\ HoldsInARow(AbsPath, "P", "A", "R")

C26_NoSidecarUndetermined ==
    calc_method = "dcm" /\ json_file = <<>> =>
        /\ recon_mat \in {Unbound, Empty}
        /\ pix_band \in {Unbound, Empty}
        /\ etl \in {Unbound, Empty}
        /\ \A i \in 1..Len(calls) : calls[i] \notin {"get_recon_mat", "get_pix_band"}
        /\ pc = "done" => rule = 5 /\ ret = Return2(Empty, Empty)

C26_Witness ==
    /\ pc = "done"
    /\ calc_method = "dcm" /\ json_file = <<>>
    /\ Present(bwpppe)
    /\ json.ok /\ Present(json.ReconMatrixPE) /\ Present(json.PixelBandwidth)
    /\ ret = Return2(Empty, Empty)
=============================================================================
